---- MODULE Spec2Model ----
(***************************************************************************)
(* A model of get_ncmonomials / unique, the noncommutative monomial        *)
(* generator of generating-noncommutative-monomials.ipynb.                 *)
(*                                                                         *)
(* A notebook session holds one generator list (`variables`, the X of the  *)
(* notebook) and calls get_ncmonomials(variables, degree) any number of    *)
(* times with any degree.  One call is the steps Call, then either         *)
(* ReturnEmpty or Setup, Round (once per iteration of the degree loop),    *)
(* ReturnBasis.  `history` is a ghost variable: the (degree, result) pair  *)
(* of every call that has returned.                                        *)
(*                                                                         *)
(* A monomial is the word of its factors, leftmost factor first: SymPy     *)
(* keeps a product of noncommutative operators in the order it was         *)
(* multiplied and folds only adjacent equal factors into a power, so the   *)
(* products are in one-to-one correspondence with the words (X0**2 is the  *)
(* word X0 X0).  S.One is the empty word.                                  *)
(***************************************************************************)
EXTENDS Integers, Sequences, FiniteSets

\* Longest generator list a session holds.
MaxVars == 2

\* Largest degree a call asks for.
MaxDegree == 2

\* The degrees a call is made with; range(degree) is empty for a negative one.
Degrees == (-1)..MaxDegree

\* The operator symbols of a session.  A HermitianOperator (X0, X1) has
\* is_hermitian True, a plain Operator (A) has is_hermitian None; F stands for
\* an operator of a class that declares is_hermitian False.  dag marks a
\* Dagger(...) factor.
Generators ==
    { [name |-> "X0", is_hermitian |-> "True",  dag |-> FALSE],
      [name |-> "X1", is_hermitian |-> "True",  dag |-> FALSE],
      [name |-> "A",  is_hermitian |-> "None",  dag |-> FALSE],
      [name |-> "F",  is_hermitian |-> "False", dag |-> FALSE] }

\* The Python int 1 that get_ncmonomials inserts in front of its copy of the
\* list; an int has no is_hermitian attribute.
IntOne == [name |-> "1", is_hermitian |-> "NoAttr", dag |-> FALSE]

\* S.One, the identity monomial.
One == << >>

\* Every generator list a session can hold (repetitions included).
VariableLists == UNION { [1..n -> Generators] : n \in 0..MaxVars }

\* The value of `result` while no call has returned yet.
NoResult == << [name |-> "NoResult", is_hermitian |-> "NoAttr", dag |-> FALSE] >>

\* The callers that call get_ncmonomials concurrently.
Threads == { "a", "b" }

\* The frame of a caller that has no call running and none returned: the
\* locals of get_ncmonomials (copy is its _variables) and of unique, the
\* degree argument, the returned value, and the ghost `overlapped`, whether
\* another caller's call was running at some step of this call.
IdleFrame ==
    [ pc |-> "idle", degree |-> 0, copy |-> << >>, ncmonomials |-> << >>,
      done |-> 0, temp |-> << >>, seen |-> {}, result |-> NoResult,
      overlapped |-> FALSE ]

\* The ground-state-energy notebook before its first cell has run: no name
\* is bound yet (-1 stands for an unbound number, the empty sequence or set
\* for an unbound list or expression).
Unopened ==
    [ pc |-> "new", gam |-> -1, lam |-> -1, lattice_length |-> -1,
      lattice_width |-> -1, n_vars |-> -1, hamiltonian |-> {}, r |-> -1,
      neighbors |-> << >>, equalities |-> << >>, inequalities |-> << >>,
      i |-> -1, j |-> -1, Cr |-> -1 ]

VARIABLES
    variables,     \* the caller's generator list
    pc,            \* "idle", "called", "loop"; "unique", "unique-returned"
    degree,        \* the degree argument of the current call
    _variables,    \* the call's copy of the list, 1 inserted in front
    ncmonomials,   \* the working sequence
    done,          \* iterations of `for _ in range(degree)` completed
    temp,          \* the products of the last round
    seen,          \* the keys of unique's `seen` dict, as last left
    result,        \* the value the last call returned
    history,       \* ghost: [degree, result] of every returned call
    repeated,      \* ghost: the last returned call repeated an earlier degree
    calls,         \* the frames of the calls that concurrent callers run
    nb             \* the names the ground-state-energy notebook has bound

vars == << variables, pc, degree, _variables, ncmonomials, done, temp, seen,
           result, history, repeated, calls, nb >>

----------------------------------------------------------------------------
(* SymPy operations *)

\* A faulty Dagger: the conjugate is the operator itself.
DaggerNothing(var) == var

\* Dagger(var): a Hermitian operator is its own conjugate, any other operator
\* gets a distinct conjugate symbol and Dagger(Dagger(var)) is var.
Dagger(var) == IF var.is_hermitian = "True" THEN var
               ELSE [var EXCEPT !.dag = ~var.dag]

\* The position of an operator symbol in the order a commutative product is
\* printed in.
SortRank(f) ==
    CASE f.name = "X0" -> 0 [] f.name = "X1" -> 1 [] f.name = "A" -> 2
      [] OTHER -> 3

\* A faulty Mul: the product of commuting symbols, as itermonomials builds
\* it (X1*X0 is X0*X1).
MulCommuting(var, new_var) ==
    IF var = IntOne THEN new_var
    ELSE SelectSeq(new_var, LAMBDA f : SortRank(f) < SortRank(var))
         \o << var >>
         \o SelectSeq(new_var, LAMBDA f : SortRank(f) >= SortRank(var))

\* A faulty Mul: the product simplified as one of projectors (X*X = X).
MulIdempotent(var, new_var) ==
    IF var = IntOne THEN new_var
    ELSE IF new_var # << >> /\ Head(new_var) = var THEN new_var
    ELSE << var >> \o new_var

\* var * new_var: 1 * m is m, any other factor is put in front of the word.
Mul(var, new_var) == IF var = IntOne THEN new_var ELSE << var >> \o new_var

\* A faulty AppendsConjugate: the Hermitian test inverted.
AppendsConjugateInverted(var) == var # IntOne /\ var.is_hermitian = "True"

\* `var != 1 and not var.is_hermitian`: None and False are both falsy.
AppendsConjugate(var) == var # IntOne /\ var.is_hermitian # "True"

\* A faulty Products: the two appends of the loop body in the other order.
ProductsConjugateFirst(var, new_var) ==
    IF AppendsConjugate(var)
    THEN << Mul(Dagger(var), new_var), Mul(var, new_var) >>
    ELSE << Mul(var, new_var) >>

\* What one pass of the inner loop body appends to temp.
Products(var, new_var) ==
    IF AppendsConjugate(var)
    THEN << Mul(var, new_var), Mul(Dagger(var), new_var) >>
    ELSE << Mul(var, new_var) >>

\* `for new_var in ncmonomials:` over the positions lo..hi, in order, for one
\* var.  The positions are walked by halves, left half first, which keeps the
\* evaluation shallow and visits them in the order of the loop.
RECURSIVE InnerLoop(_, _, _, _)
InnerLoop(var, ncm, lo, hi) ==
    IF lo > hi THEN << >>
    ELSE IF lo = hi THEN Products(var, ncm[lo])
    ELSE LET mid == (lo + hi) \div 2
         IN  InnerLoop(var, ncm, lo, mid) \o InnerLoop(var, ncm, mid + 1, hi)

\* The products of one monomial with every var of vs from position i on.
RECURSIVE ProductsOfMonomial(_, _, _)
ProductsOfMonomial(vs, new_var, i) ==
    IF i > Len(vs) THEN << >>
    ELSE Products(vs[i], new_var) \o ProductsOfMonomial(vs, new_var, i + 1)

\* A faulty OuterLoop: the loops nested the other way round, `for new_var in
\* ncmonomials:` outside and `for var in _variables:` inside.
RECURSIVE OuterLoopMonomialMajor(_, _, _)
OuterLoopMonomialMajor(vs, ncm, i) ==
    IF i > Len(ncm) THEN << >>
    ELSE ProductsOfMonomial(vs, ncm[i], 1) \o OuterLoopMonomialMajor(vs, ncm, i + 1)

\* `for var in _variables:` from position i on: the temp of one round.
RECURSIVE OuterLoop(_, _, _)
OuterLoop(vs, ncm, i) ==
    IF i > Len(vs) THEN << >>
    ELSE InnerLoop(vs[i], ncm, 1, Len(ncm)) \o OuterLoop(vs, ncm, i + 1)

----------------------------------------------------------------------------
(* unique *)

\* A faulty NewSeen: the dict outlives the call (a mutable default
\* argument, `def unique(seq, seen={})`).
KeptSeen(old) == old

\* `seen = {}`: every call of unique starts from a fresh dict, whatever the
\* dict of the call before held.
NewSeen(old) == {}

\* A faulty Skips: no item is ever skipped.
SkipsNothing(marker, seenKeys) == FALSE

\* `if marker in seen: continue`
Skips(marker, seenKeys) == marker \in seenKeys

\* A faulty SeenAt: an item counts as seen if it occurs later in seq, so the
\* last occurrence is the one kept.
SeenAtLater(seq, i, first) == first \cup { seq[j] : j \in (i + 1)..Len(seq) }

\* The keys of seen when `for item in seq:` reaches position i, the dict
\* having started as `first`: every item before i was either in the dict
\* already or put into it by `seen[marker] = 1`.
SeenAt(seq, i, first) == first \cup { seq[j] : j \in 1..(i - 1) }

\* The loop body at position i: nothing if the item is skipped, else
\* `result.append(item)`.
UniqueStep(seq, i, first) ==
    IF Skips(seq[i], SeenAt(seq, i, first)) THEN << >> ELSE << seq[i] >>

\* What `for item in seq:` appends to result over the positions lo..hi, in
\* order (walked by halves, left half first).
RECURSIVE UniqueLoop(_, _, _, _)
UniqueLoop(seq, lo, hi, first) ==
    IF lo > hi THEN << >>
    ELSE IF lo = hi THEN UniqueStep(seq, lo, first)
    ELSE LET mid == (lo + hi) \div 2
         IN  UniqueLoop(seq, lo, mid, first) \o UniqueLoop(seq, mid + 1, hi, first)

\* unique(seq), its dict created while `old` is what the dict of the call
\* before was left as; gives the final seen and the returned result.
unique(seq, old) ==
    [ seen   |-> SeenAt(seq, Len(seq) + 1, NewSeen(old)),
      result |-> UniqueLoop(seq, 1, Len(seq), NewSeen(old)) ]

----------------------------------------------------------------------------
(* get_ncmonomials *)

\* A faulty BasisOfNoVariables: `return []`.
BasisOfNoVariablesNothing == << >>

\* `return [S.One]` of the `if not variables:` branch.
BasisOfNoVariables == << One >>

\* A faulty InsertOne: the 1 is appended instead of inserted in front.
InsertOneLast(list) == list \o << IntOne >>

\* A faulty InsertOne: the 1 is left out.
InsertOneNot(list) == list

\* `_variables = variables[:]` then `_variables.insert(0, 1)`.
InsertOne(list) == << IntOne >> \o list

\* A faulty CallerListAfterInsert: `_variables = variables` names the caller's
\* list itself, so insert(0, 1) puts the 1 into it.
CallerListAliased(list) == << IntOne >> \o list

\* The caller's list after `_variables = variables[:]` and
\* `_variables.insert(0, 1)`: the slice is a new list and the insert changes
\* only that one.
CallerListAfterInsert(list) == list

\* A faulty Rounds: the sign of the degree is dropped, range(abs(degree)).
RoundsAbsolute(d) == IF d > 0 THEN d ELSE 0 - d

\* A faulty Rounds: the loop runs once more, range(degree + 1).
RoundsOneMore(d) == IF d + 1 > 0 THEN d + 1 ELSE 0

\* The number of iterations of `for _ in range(degree)`.
Rounds(d) == IF d > 0 THEN d ELSE 0

Init ==
    /\ variables \in VariableLists
    /\ pc = "idle"
    /\ degree = 0
    /\ _variables = << >>
    /\ ncmonomials = << >>
    /\ done = 0
    /\ temp = << >>
    /\ seen = {}
    /\ result = NoResult
    /\ history = {}
    /\ repeated = FALSE
    /\ calls = [t \in Threads |-> IdleFrame]
    /\ nb = Unopened

\* The notebook calls get_ncmonomials(variables, d).
Call(d) ==
    /\ pc = "idle"
    /\ pc' = "called"
    /\ degree' = d
    /\ result' = NoResult
    /\ repeated' = FALSE
    /\ UNCHANGED << variables, _variables, ncmonomials, done, temp, seen, history,
                    calls, nb >>

\* `if not variables: return [S.One]`
ReturnEmpty ==
    /\ pc = "called"
    /\ variables = << >>
    /\ result' = BasisOfNoVariables
    /\ history' = history \cup { [degree |-> degree, result |-> result'] }
    /\ repeated' = (\E h \in history : h.degree = degree)
    /\ pc' = "idle"
    /\ UNCHANGED << variables, degree, _variables, ncmonomials, done, temp, seen,
                    calls, nb >>

\* The else branch up to the loop: copy the list, insert 1, start from [S.One].
Setup ==
    /\ pc = "called"
    /\ variables # << >>
    /\ _variables' = InsertOne(variables)
    /\ variables' = CallerListAfterInsert(variables)
    /\ ncmonomials' = << One >>
    /\ done' = 0
    /\ pc' = "loop"
    /\ UNCHANGED << degree, temp, seen, result, history, repeated, calls, nb >>

\* One iteration of `for _ in range(degree):`, the call of unique included.
Round ==
    /\ pc = "loop"
    /\ done < Rounds(degree)
    /\ temp' = OuterLoop(_variables, ncmonomials, 1)
    /\ LET u == unique(temp', seen)
       IN  /\ ncmonomials' = u.result
           /\ seen' = u.seen
    /\ done' = done + 1
    /\ UNCHANGED << variables, pc, degree, _variables, result, history, repeated,
                    calls, nb >>

\* `return ncmonomials`; the locals of the call die with its frame.
ReturnBasis ==
    /\ pc = "loop"
    /\ done >= Rounds(degree)
    /\ result' = ncmonomials
    /\ history' = history \cup { [degree |-> degree, result |-> result'] }
    /\ repeated' = (\E h \in history : h.degree = degree)
    /\ pc' = "idle"
    /\ _variables' = << >>
    /\ ncmonomials' = << >>
    /\ temp' = << >>
    /\ done' = 0
    /\ UNCHANGED << variables, degree, seen, calls, nb >>

Next ==
    \/ \E d \in Degrees : Call(d)
    \/ ReturnEmpty
    \/ Setup
    \/ Round
    \/ ReturnBasis

Spec == Init /\ [][Next]_vars

\* Longest sequence unique is called with on its own.
MaxSeqLen == 4

\* The items of those sequences: the identity and two one-factor monomials.
TestItems ==
    { One } \cup { << g >> : g \in { h \in Generators : h.name \in {"X0", "A"} } }

\* The sequences unique is called with on its own.
TestSequences == UNION { [1..n -> TestItems] : n \in 0..MaxSeqLen }

\* A cell is about to call unique(temp) directly; `seen` is whatever dict an
\* earlier call of unique left.
UniqueInit ==
    /\ variables = << >>
    /\ pc = "unique"
    /\ degree = 0
    /\ _variables = << >>
    /\ ncmonomials = << >>
    /\ done = 0
    /\ temp \in TestSequences
    /\ seen \in SUBSET TestItems
    /\ result = NoResult
    /\ history = {}
    /\ repeated = FALSE
    /\ calls = [t \in Threads |-> IdleFrame]
    /\ nb = Unopened

\* A faulty SeqAfterUnique: unique pops the items off the list as it walks it.
SeqConsumed(seq) == << >>

\* The caller's list after unique(seq) walked it: `for item in seq` only
\* reads it, the kept items go to the new list `result`.
SeqAfterUnique(seq) == seq

\* unique(temp), called on its own; ncmonomials receives what it returns.
UniqueCall ==
    /\ pc = "unique"
    /\ LET u == unique(temp, seen)
       IN  /\ ncmonomials' = u.result
           /\ seen' = u.seen
    /\ temp' = SeqAfterUnique(temp)
    /\ pc' = "unique-returned"
    /\ UNCHANGED << variables, degree, _variables, done, result, history,
                    repeated, calls, nb >>

\* The sessions of Spec, and the direct calls of unique.
UniqueSpec == (Init \/ UniqueInit) /\ [][Next \/ UniqueCall]_vars

\* The steps of a call once it is made.
CallSteps == ReturnEmpty \/ Setup \/ Round \/ ReturnBasis

\* Python runs a call to its return: a step of the call that can be taken is
\* taken.  Whether the notebook makes another call is left open.
FairSpec == Spec /\ WF_vars(CallSteps)

\* A faulty WorkingOwner: ncmonomials is one module-level name that every call
\* rebinds, the first caller's.
WorkingShared(t) == "a"

\* The frame that holds the ncmonomials a call of caller t works on:
\* `ncmonomials = [S.One]` binds a local of the call, so its own.
WorkingOwner(t) == t

\* Some caller other than t has a call running.
OtherRunning(t) == \E u \in Threads \ { t } : calls[u].pc # "idle"

\* Caller t calls get_ncmonomials(variables, d) on the list all callers share.
ThreadCall(t, d) ==
    /\ calls[t].pc = "idle"
    /\ calls' = [ calls EXCEPT ![t] = [ IdleFrame EXCEPT !.pc = "called",
                                                        !.degree = d,
                                                        !.overlapped = OtherRunning(t) ] ]
    /\ UNCHANGED << variables, pc, degree, _variables, ncmonomials, done, temp,
                    seen, result, history, repeated, nb >>

\* `if not variables: return [S.One]` in caller t's call.
ThreadReturnEmpty(t) ==
    /\ calls[t].pc = "called"
    /\ variables = << >>
    /\ calls' = [ calls EXCEPT ![t] = [ IdleFrame EXCEPT !.degree = calls[t].degree,
                                                        !.result = BasisOfNoVariables,
                                                        !.overlapped = calls[t].overlapped \/ OtherRunning(t) ] ]
    /\ UNCHANGED << variables, pc, degree, _variables, ncmonomials, done, temp,
                    seen, result, history, repeated, nb >>

\* The copy of the list with 1 at its front and `ncmonomials = [S.One]` in
\* caller t's call.
ThreadSetup(t) ==
    /\ calls[t].pc = "called"
    /\ variables # << >>
    /\ variables' = CallerListAfterInsert(variables)
    /\ calls' = [ calls EXCEPT ![t].pc = "loop",
                               ![t].copy = InsertOne(variables),
                               ![t].done = 0,
                               ![t].overlapped = @ \/ OtherRunning(t),
                               ![WorkingOwner(t)].ncmonomials = << One >> ]
    /\ UNCHANGED << pc, degree, _variables, ncmonomials, done, temp, seen,
                    result, history, repeated, nb >>

\* One pass of `for _ in range(degree)` in caller t's call.
ThreadRound(t) ==
    /\ calls[t].pc = "loop"
    /\ calls[t].done < Rounds(calls[t].degree)
    /\ \E tmp \in { OuterLoop(calls[t].copy,
                              calls[WorkingOwner(t)].ncmonomials, 1) } :
         \E u \in { unique(tmp, calls[t].seen) } :
            calls' = [ calls EXCEPT ![t].temp = tmp,
                                    ![t].seen = u.seen,
                                    ![t].done = @ + 1,
                                    ![t].overlapped = @ \/ OtherRunning(t),
                                    ![WorkingOwner(t)].ncmonomials = u.result ]
    /\ UNCHANGED << variables, pc, degree, _variables, ncmonomials, done, temp,
                    seen, result, history, repeated, nb >>

\* `return ncmonomials` in caller t's call; the frame's locals die with it.
ThreadReturnBasis(t) ==
    /\ calls[t].pc = "loop"
    /\ calls[t].done >= Rounds(calls[t].degree)
    /\ calls' = [ calls EXCEPT ![t] = [ IdleFrame EXCEPT !.degree = calls[t].degree,
                                                        !.result = calls[WorkingOwner(t)].ncmonomials,
                                                        !.overlapped = calls[t].overlapped \/ OtherRunning(t) ] ]
    /\ UNCHANGED << variables, pc, degree, _variables, ncmonomials, done, temp,
                    seen, result, history, repeated, nb >>

\* A step of some caller's call.
ThreadNext ==
    \E t \in Threads :
        \/ \E d \in Degrees : ThreadCall(t, d)
        \/ ThreadReturnEmpty(t)
        \/ ThreadSetup(t)
        \/ ThreadRound(t)
        \/ ThreadReturnBasis(t)

\* Callers that call get_ncmonomials on one list, their calls interleaved
\* round by round.
ConcSpec == Init /\ [][ThreadNext]_vars

----------------------------------------------------------------------------
(* The ground-state-energy notebook: its cells, run in order *)

\* The largest lattice side the notebook is run with.
MaxLattice == 3

\* C[k], an operator generate_variables(n_vars, name='C') returns: a plain
\* operator, not Hermitian.
C(k) == [name |-> "C", index |-> k, is_hermitian |-> "None", dag |-> FALSE]

\* An expression is the set of its terms, a coefficient and a word each; 0 is
\* the empty set.  expr + c * word: a zero coefficient adds nothing, a word
\* the expression has already gets the coefficients summed.
Plus(expr, c, word) ==
    IF c = 0 THEN expr
    ELSE IF \E t \in expr : t.word = word
    THEN LET old == CHOOSE t \in expr : t.word = word
         IN  (expr \ { old }) \cup
                 (IF old.coef + c = 0 THEN {}
                  ELSE { [coef |-> old.coef + c, word |-> word] })
    ELSE expr \cup { [coef |-> c, word |-> word] }

\* a * b + b * a.
Anticommutator(a, b) == Plus(Plus({}, 1, << a, b >>), 1, << b, a >>)

\* get_neighbors(index, lattice_length, width=lattice_width) of the library:
\* the site to the right, when index is not in the last column, and the site
\* below, when it is not in the last row.
get_neighbors(index, length, width) ==
    (IF index % width < width - 1 THEN << index + 1 >> ELSE << >>)
    \o (IF index \div width < length - 1 THEN << index + width >> ELSE << >>)

\* Cell 1: the parameters, the lattice and the operators.  The lattice is
\* the parameter the notebook is rerun with (3 by 3 as published).
Cell1(length, width) ==
    /\ nb.pc = "new"
    /\ nb' = [nb EXCEPT !.pc = "cell2", !.gam = 0, !.lam = 1,
                        !.lattice_length = length, !.lattice_width = width,
                        !.n_vars = length * width]
    /\ UNCHANGED << variables, pc, degree, _variables, ncmonomials, done, temp,
                    seen, result, history, repeated, calls >>

\* Cell 2 begins: `hamiltonian = 0` and the first test of `for r`.
Cell2 ==
    /\ nb.pc = "cell2"
    /\ nb' = [nb EXCEPT !.pc = "for_r", !.hamiltonian = {}, !.r = 0]
    /\ UNCHANGED << variables, pc, degree, _variables, ncmonomials, done, temp,
                    seen, result, history, repeated, calls >>

\* `for r in range(n_vars):` one pass up to the inner loop, or the exit.
ForR ==
    /\ nb.pc = "for_r"
    /\ IF nb.r < nb.n_vars
       THEN nb' = [nb EXCEPT
                !.hamiltonian = Plus(@, 0 - 2 * nb.lam,
                                     << Dagger(C(nb.r)), C(nb.r) >>),
                !.neighbors = get_neighbors(nb.r, nb.lattice_length,
                                            nb.lattice_width),
                !.pc = "for_s"]
       ELSE nb' = [nb EXCEPT !.pc = "cell3"]
    /\ UNCHANGED << variables, pc, degree, _variables, ncmonomials, done, temp,
                    seen, result, history, repeated, calls >>

\* `for s in get_neighbors(...)`: one pass, or the exit to the next r.
ForS ==
    /\ nb.pc = "for_s"
    /\ IF nb.neighbors # << >>
       THEN LET cr == C(nb.r)
                cs == C(Head(nb.neighbors))
                hop == Plus(Plus(nb.hamiltonian, 1, << Dagger(cr), cs >>),
                            1, << Dagger(cs), cr >>)
            IN  nb' = [nb EXCEPT
                    !.hamiltonian =
                        Plus(Plus(hop, 0 - nb.gam, << Dagger(cr), Dagger(cs) >>),
                             0 - nb.gam, << cs, cr >>),
                    !.neighbors = Tail(@)]
       ELSE nb' = [nb EXCEPT !.r = @ + 1, !.pc = "for_r"]
    /\ UNCHANGED << variables, pc, degree, _variables, ncmonomials, done, temp,
                    seen, result, history, repeated, calls >>

\* Cell 3 begins: the empty lists and the first test of `for i`.
Cell3 ==
    /\ nb.pc = "cell3"
    /\ nb' = [nb EXCEPT !.pc = "for_i", !.equalities = << >>,
                        !.inequalities = << >>, !.i = 0]
    /\ UNCHANGED << variables, pc, degree, _variables, ncmonomials, done, temp,
                    seen, result, history, repeated, calls >>

\* A faulty FirstJ: the inner range starts at i itself.
FirstJSame(i) == i

\* `range(i + 1, n_vars)`: where j starts.
FirstJ(i) == i + 1

\* `for i in range(n_vars):` one pass up to the inner loop, or the exit.
ForI ==
    /\ nb.pc = "for_i"
    /\ IF nb.i < nb.n_vars
       THEN nb' = [nb EXCEPT !.j = FirstJ(nb.i), !.pc = "for_j"]
       ELSE nb' = [nb EXCEPT !.Cr = 0, !.pc = "for_Cr"]
    /\ UNCHANGED << variables, pc, degree, _variables, ncmonomials, done, temp,
                    seen, result, history, repeated, calls >>

\* The four equalities one pass of `for j` appends.
PairEqualities(i, j) ==
    << Anticommutator(Dagger(C(j)), C(i)),
       Anticommutator(C(j), Dagger(C(i))),
       Anticommutator(C(j), C(i)),
       Anticommutator(Dagger(C(j)), Dagger(C(i))) >>

\* `for j in range(i + 1, n_vars):` one pass, or the exit to the next i.
ForJ ==
    /\ nb.pc = "for_j"
    /\ IF nb.j < nb.n_vars
       THEN nb' = [nb EXCEPT !.equalities = @ \o PairEqualities(nb.i, nb.j),
                             !.j = @ + 1]
       ELSE nb' = [nb EXCEPT !.i = @ + 1, !.pc = "for_i"]
    /\ UNCHANGED << variables, pc, degree, _variables, ncmonomials, done, temp,
                    seen, result, history, repeated, calls >>

\* The three equalities one pass of `for Cr in C` appends.
SiteEqualities(k) ==
    << Plus({}, 1, << C(k), C(k) >>),
       Plus({}, 1, << Dagger(C(k)), Dagger(C(k)) >>),
       Plus(Anticommutator(C(k), Dagger(C(k))), -1, << >>) >>

\* The two inequalities one pass of `for Cr in C` appends.
SiteInequalities(k) ==
    << Plus({}, 1, << Dagger(C(k)), C(k) >>),
       Plus(Plus({}, 1, << >>), -1, << Dagger(C(k)), C(k) >>) >>

\* `for Cr in C:` one pass, or the end of the cell (Cr is the position).
ForCr ==
    /\ nb.pc = "for_Cr"
    /\ IF nb.Cr < nb.n_vars
       THEN nb' = [nb EXCEPT !.equalities = @ \o SiteEqualities(nb.Cr),
                             !.inequalities = @ \o SiteInequalities(nb.Cr),
                             !.Cr = @ + 1]
       ELSE nb' = [nb EXCEPT !.pc = "end"]
    /\ UNCHANGED << variables, pc, degree, _variables, ncmonomials, done, temp,
                    seen, result, history, repeated, calls >>

NotebookNext ==
    \/ \E length, width \in 1..MaxLattice : Cell1(length, width)
    \/ Cell2
    \/ ForR
    \/ ForS
    \/ Cell3
    \/ ForI
    \/ ForJ
    \/ ForCr

\* The notebook alone: no call of get_ncmonomials is made in it.
NotebookInit == Init /\ variables = << >>

NotebookSpec == NotebookInit /\ [][NotebookNext]_vars

----------------------------------------------------------------------------
(* Vocabulary of the properties *)

\* The elements of a sequence.
Range(s) == { s[i] : i \in DOMAIN s }

\* No element occurs twice.
NoRepetition(s) == \A i, j \in DOMAIN s : i # j => s[i] # s[j]

\* The last call has returned: result is what
\* get_ncmonomials(variables, degree) gave.
Returned == pc = "idle" /\ result # NoResult

\* The conjugate symbol of a generator.
Conj(g) == [name |-> g.name, is_hermitian |-> g.is_hermitian, dag |-> TRUE]

AllHermitian(list) == \A i \in DOMAIN list : list[i].is_hermitian = "True"

NoneHermitian(list) == \A i \in DOMAIN list : list[i].is_hermitian # "True"

\* Every generator of the list, and the conjugate of every non-Hermitian one.
Alphabet(list) ==
    Range(list) \cup { Conj(g) : g \in { h \in Range(list) : h.is_hermitian # "True" } }

\* All words of length 0..d over the alphabet of the list.
Words(list, d) == UNION { [1..k -> Alphabet(list)] : k \in 0..d }

\* The results the returned calls gave for degree d.
ResultsAt(d) == { h.result : h \in { g \in history : g.degree = d } }

----------------------------------------------------------------------------
(* Properties *)

\* C1: for pairwise distinct generators and a degree d >= 0, the elements
\* returned are exactly the words of length 0..d over the generators and the
\* conjugates of the non-Hermitian generators.
C1_ExactlyTheWords ==
    (Returned /\ degree >= 0 /\ NoRepetition(variables))
        => Range(result) = Words(variables, degree)

\* C1 witness: a degree-2 call on a Hermitian and a non-Hermitian generator
\* has returned all 13 words.
C1_Witness ==
    /\ Returned /\ degree = 2 /\ Len(variables) = 2 /\ NoRepetition(variables)
    /\ ~AllHermitian(variables) /\ ~NoneHermitian(variables)
    /\ Cardinality(Range(result)) = 13

\* C2: for every list and every degree d >= 0 the returned sequence holds no
\* two equal monomials.
C2_NoTwoEqual == (Returned /\ degree >= 0) => NoRepetition(result)

\* C2 witness: a degree-2 call on two generators has returned; the temp of
\* its second round held every word of length 1 twice.
C2_Witness ==
    /\ Returned /\ degree = 2 /\ Len(variables) = 2
    /\ Len(result) >= 7 /\ NoRepetition(result)

\* C3: for every list and every degree d >= 0 the first element returned is
\* the identity and the identity occurs nowhere else.
C3_IdentityFirstOnly ==
    (Returned /\ degree >= 0)
        => /\ Len(result) >= 1
           /\ result[1] = One
           /\ \A i \in 2..Len(result) : result[i] # One

\* C3 witness: a call that ran two rounds has returned more than the identity.
C3_Witness ==
    Returned /\ degree = 2 /\ variables # << >> /\ Len(result) > 1 /\ result[1] = One

\* C4: with an empty generator list the result is [identity] for every
\* degree d >= 0.
C4_EmptyListGivesIdentity ==
    (Returned /\ variables = << >> /\ degree >= 0) => result = << One >>

\* C4 witness: a call with the empty list and a positive degree has returned.
C4_Witness == Returned /\ variables = << >> /\ degree = MaxDegree /\ result = << One >>

\* C5: with degree 0 the result is [identity] for every generator list.
C5_DegreeZeroGivesIdentity == (Returned /\ degree = 0) => result = << One >>

\* C5 witness: a degree-0 call on a list of two generators, one of them not
\* Hermitian, has returned.
C5_Witness ==
    /\ Returned /\ degree = 0 /\ Len(variables) = 2 /\ ~AllHermitian(variables)
    /\ result = << One >>

\* C6: for every list and every d >= 1, every monomial returned for degree
\* d-1 is also returned for degree d.
C6_MonotoneInDegree ==
    \A lo, hi \in history :
        (hi.degree >= 1 /\ lo.degree = hi.degree - 1)
            => Range(lo.result) \subseteq Range(hi.result)

\* C6 witness: calls with degree 1 and degree 2 on a non-empty list have both
\* returned, the second with more monomials than the first.
C6_Witness ==
    /\ variables # << >>
    /\ \E lo, hi \in history :
          /\ lo.degree = 1 /\ hi.degree = 2
          /\ Range(lo.result) \subseteq Range(hi.result)
          /\ Len(lo.result) < Len(hi.result)

\* The products of a monomial of `basis` with one generator of the list, or
\* one conjugate of a non-Hermitian generator, multiplied on the right.
RightProducts(basis, list) ==
    { Append(m, x) : m \in Range(basis), x \in Alphabet(list) }

\* C7: as sets, the result for degree d >= 1 is the identity together with
\* all right-products of the result for degree d-1.
C7_RightClosure ==
    \A lo, hi \in history :
        (hi.degree >= 1 /\ lo.degree = hi.degree - 1)
            => Range(hi.result) = {One} \cup RightProducts(lo.result, variables)

\* C7 witness: degree 1 and degree 2 have both returned for a list with a
\* non-Hermitian generator, and the degree-2 result holds a word that ends
\* with a conjugate and starts with another factor.
C7_Witness ==
    /\ ~AllHermitian(variables)
    /\ \E lo, hi \in history :
          /\ lo.degree = 1 /\ hi.degree = 2
          /\ \E w \in Range(hi.result) :
                Len(w) = 2 /\ w[2].dag /\ w[1] # w[2]
          /\ Range(hi.result) = {One} \cup RightProducts(lo.result, variables)

\* C8: for n pairwise distinct Hermitian generators and degree 1 the result
\* has n + 1 elements, the identity followed by each generator once, and no
\* conjugate.
C8_HermitianDegreeOne ==
    (Returned /\ degree = 1 /\ NoRepetition(variables) /\ AllHermitian(variables))
        => /\ Len(result) = Len(variables) + 1
           /\ result[1] = One
           /\ \A i \in DOMAIN variables : result[i + 1] = << variables[i] >>
           /\ \A i \in DOMAIN result : \A k \in DOMAIN result[i] : ~result[i][k].dag

\* C8 witness: a degree-1 call on X0, X1 (in either order) has returned three
\* elements.
C8_Witness ==
    /\ Returned /\ degree = 1 /\ Len(variables) = 2
    /\ NoRepetition(variables) /\ AllHermitian(variables)
    /\ Len(result) = 3

\* C9: for n pairwise distinct non-Hermitian generators and degree 1 the
\* result has 2n + 1 elements, the identity, each generator and each
\* conjugate, the 2n others pairwise distinct.
C9_NonHermitianDegreeOne ==
    (Returned /\ degree = 1 /\ NoRepetition(variables) /\ NoneHermitian(variables))
        => /\ Len(result) = 2 * Len(variables) + 1
           /\ Range(result) = {One} \cup { << g >> : g \in Range(variables) }
                                    \cup { << Conj(g) >> : g \in Range(variables) }
           /\ NoRepetition(result)

\* C9 witness: a degree-1 call on two non-Hermitian generators has returned
\* five elements.
C9_Witness ==
    /\ Returned /\ degree = 1 /\ Len(variables) = 2
    /\ NoRepetition(variables) /\ NoneHermitian(variables)
    /\ Len(result) = 5

\* C10: two calls with the same list and the same degree return the same
\* sequence, whatever calls were made before or between them.
C10_Deterministic ==
    \A h1, h2 \in history : h1.degree = h2.degree => h1.result = h2.result

\* C10 witness: a degree-2 call on two generators has returned for the second
\* time or more, after calls with two other degrees.
C10_Witness ==
    /\ Returned /\ repeated /\ degree = 2 /\ Len(variables) = 2
    /\ Cardinality({ h.degree : h \in history }) >= 3
    /\ ResultsAt(2) = { result }

\* The generator of the session's symbols with the given name.
Gen(n) == CHOOSE g \in Generators : g.name = n

\* C11: for the Hermitian X0, X1 and degree 2 the result has exactly 7
\* elements, the set {1, X0, X1, X0^2, X0*X1, X1*X0, X1^2}, X0*X1 and X1*X0
\* being two elements.
C11_TwoHermitianDegreeTwo ==
    (Returned /\ degree = 2 /\ variables = << Gen("X0"), Gen("X1") >>)
        => /\ Len(result) = 7
           /\ Range(result) =
                 { One, << Gen("X0") >>, << Gen("X1") >>,
                   << Gen("X0"), Gen("X0") >>, << Gen("X0"), Gen("X1") >>,
                   << Gen("X1"), Gen("X0") >>, << Gen("X1"), Gen("X1") >> }
           /\ \E i, j \in DOMAIN result :
                 /\ i # j
                 /\ result[i] = << Gen("X0"), Gen("X1") >>
                 /\ result[j] = << Gen("X1"), Gen("X0") >>

\* C11 witness: get_ncmonomials([X0, X1], 2) has returned.
C11_Witness ==
    /\ Returned /\ degree = 2 /\ variables = << Gen("X0"), Gen("X1") >>
    /\ Len(result) = 7

\* C12: for the one non-Hermitian generator A and degree 2 the result has
\* exactly 7 elements, the set {1, A, A+, A^2, A*A+, A+*A, (A+)^2}.
C12_OneNonHermitianDegreeTwo ==
    (Returned /\ degree = 2 /\ variables = << Gen("A") >>)
        => /\ Len(result) = 7
           /\ Range(result) =
                 { One, << Gen("A") >>, << Conj(Gen("A")) >>,
                   << Gen("A"), Gen("A") >>, << Gen("A"), Conj(Gen("A")) >>,
                   << Conj(Gen("A")), Gen("A") >>,
                   << Conj(Gen("A")), Conj(Gen("A")) >> }

\* C12 witness: get_ncmonomials([A], 2) has returned.
C12_Witness ==
    /\ Returned /\ degree = 2 /\ variables = << Gen("A") >>
    /\ Len(result) = 7

\* C13: get_ncmonomials leaves its argument alone: no step of a call changes
\* the caller's generator list, so after the call it has the same length and
\* the same elements in the same order as before.
C13_ArgumentUntouched == [][variables' = variables]_vars

\* C13 witness: a call that copied the list, inserted the 1 and ran a round
\* has returned, and the caller's list holds no 1.
C13_Witness ==
    /\ Returned /\ degree >= 1 /\ Len(variables) = MaxVars
    /\ IntOne \notin Range(variables)
    /\ Len(result) > Len(variables)

\* C14 as claimed: a call with a negative degree is rejected, no basis is
\* returned for it.
C14_NegativeDegreeRejected ==
    (pc = "idle" /\ degree < 0) => result = NoResult

\* C14 as the code has it: a call with a negative degree is not rejected;
\* range(degree) is empty and the call returns [identity] for every list.
C14_NegativeDegreeGivesIdentity ==
    (Returned /\ degree < 0) => result = << One >>

\* C14 witness: a call with degree -1 on a list of two generators has
\* returned [identity].
C14_Witness ==
    /\ Returned /\ degree < 0 /\ Len(variables) = 2
    /\ NoRepetition(variables) /\ result = << One >>

\* C15 as claimed: a call whose list holds the same generator twice is
\* rejected, no basis is returned for it.
C15_RepeatedGeneratorRejected ==
    (pc = "idle" /\ ~NoRepetition(variables)) => result = NoResult

\* C15 as the code has it: a call whose list holds the same generator twice
\* is not rejected; it returns a duplicate-free basis that starts with the
\* identity, for d >= 0 all words of length 0..d over the generators that
\* occur in the list.
C15_RepeatedGeneratorGivesBasis ==
    (Returned /\ ~NoRepetition(variables))
        => /\ NoRepetition(result)
           /\ Len(result) >= 1 /\ result[1] = One
           /\ degree >= 0 => Range(result) = Words(variables, degree)

\* C15 witness: a degree-2 call on a list that names one non-Hermitian
\* generator twice has returned the 7 words over it and its conjugate.
C15_Witness ==
    /\ Returned /\ degree = 2 /\ Len(variables) = 2
    /\ variables[1] = variables[2] /\ NoneHermitian(variables)
    /\ Len(result) = 7

\* C16: every call with a finite list and a degree d >= 0 terminates, its
\* loop never runs more than d rounds and has run exactly d when the call
\* returns.
C16_Terminates ==
    /\ [](pc = "loop" /\ degree >= 0 => done <= degree)
    /\ [][(pc = "loop" /\ pc' = "idle" /\ degree >= 0) => done = degree]_vars
    /\ (pc # "idle") ~> (pc = "idle")

\* C16 witness: the loop of a call with the largest degree on a longest list
\* has run all its rounds and the call is about to return.
C16_Witness ==
    /\ pc = "loop" /\ degree = MaxDegree /\ done = degree
    /\ Len(variables) = MaxVars /\ Len(ncmonomials) > 1

\* One round of a call that runs alone, from the working sequence ncm.
AloneRound(list, ncm) ==
    CHOOSE r \in { unique(t, {}).result :
                      t \in { OuterLoop(InsertOne(list), ncm, 1) } } : TRUE

\* The working sequence of a call that runs alone after k rounds.
RECURSIVE AloneRounds(_, _)
AloneRounds(list, k) ==
    IF k <= 0 THEN << One >>
    ELSE CHOOSE r \in { AloneRound(list, p) :
                           p \in { AloneRounds(list, k - 1) } } : TRUE

\* What get_ncmonomials(list, d) returns when no other call runs.
Alone(list, d) ==
    IF list = << >> THEN << One >> ELSE AloneRounds(list, d)

\* C17: whatever calls run concurrently with it and however their rounds
\* interleave, a call returns the sequence it returns when it runs alone;
\* no step changes the frame of more than one caller, nor the list they share.
C17_ConcurrentAsAlone ==
    /\ [](\A t \in Threads :
            (calls[t].pc = "idle" /\ calls[t].result # NoResult)
                => calls[t].result = Alone(variables, calls[t].degree))
    /\ [][/\ variables' = variables
          /\ \A t, u \in Threads :
                (t # u /\ calls'[t] # calls[t]) => calls'[u] = calls[u]]_vars

\* C17 witness: two calls of different positive degrees on a longest list
\* have both returned, each having run while the other was running.
C17_Witness ==
    /\ Len(variables) = MaxVars
    /\ calls["a"].pc = "idle" /\ calls["b"].pc = "idle"
    /\ calls["a"].overlapped /\ calls["b"].overlapped
    /\ calls["a"].degree = MaxDegree /\ calls["b"].degree = 1
    /\ Len(calls["a"].result) > Len(calls["b"].result)
    /\ Len(calls["b"].result) > 1

\* The position of the first occurrence of x in seq.
FirstIndex(seq, x) ==
    LET at == { k \in DOMAIN seq : seq[k] = x }
    IN  CHOOSE k \in at : \A l \in at : k <= l

\* res is seq with every later occurrence of an item removed: no item twice,
\* the same items, in the order of their first occurrences in seq.
StableDedup(seq, res) ==
    /\ NoRepetition(res)
    /\ Range(res) = Range(seq)
    /\ \A i \in 1..(Len(res) - 1) :
          FirstIndex(seq, res[i]) < FirstIndex(seq, res[i + 1])

\* C18: unique(seq) is seq without its later duplicates, in first-occurrence
\* order, for every seq it is called with; the working sequence after each
\* round of get_ncmonomials is exactly unique of that round's temp.
C18_StableFirstOccurrence ==
    (pc = "unique-returned" \/ (pc = "loop" /\ done >= 1))
        => StableDedup(temp, ncmonomials)

\* C18 witness: unique has returned two items for a longest sequence whose
\* first item comes back after another one.
C18_Witness ==
    /\ pc = "unique-returned" /\ Len(temp) = MaxSeqLen
    /\ temp[1] # temp[2] /\ temp[3] = temp[1]
    /\ Len(ncmonomials) = 2 /\ ncmonomials[1] = temp[1]

\* The position of the monomial m in the returned sequence.
Pos(m) == FirstIndex(result, m)

\* A word without its last factor, and without its first factor.
Front(w) == SubSeq(w, 1, Len(w) - 1)

\* The generator a factor is, or is the conjugate of.
Base(f) == [name |-> f.name, is_hermitian |-> f.is_hermitian, dag |-> FALSE]

\* C19 as claimed: the products are m*x, made monomial by monomial; among the
\* returned words of one length, a word whose front part m1 comes before the
\* front part m2 of another comes before that other word.
C19_MonomialMajorOrder ==
    Returned =>
        \A i, j \in DOMAIN result :
            ( /\ Len(result[i]) = Len(result[j]) /\ Len(result[i]) >= 1
              /\ Pos(Front(result[i])) < Pos(Front(result[j])) )
                => i < j

\* Whether the word v is produced before the word w of the same length by
\* loops that run over the generators outside and the monomials inside and
\* multiply on the left, g*m before Dagger(g)*m.
ProducedBefore(v, w) ==
    LET gv == FirstIndex(variables, Base(Head(v)))
        gw == FirstIndex(variables, Base(Head(w)))
        tv == Pos(Tail(v))
        tw == Pos(Tail(w))
    IN  \/ gv < gw
        \/ gv = gw /\ tv < tw
        \/ gv = gw /\ tv = tw /\ ~Head(v).dag /\ Head(w).dag

\* C19 as the code has it: the outer loop is over the generators in input
\* order, the inner loop over the monomials, and each product is g*m, then
\* Dagger(g)*m.  Among the returned words of one length the order is by the
\* generator of the first factor, then by the position of the rest of the
\* word, the unconjugated factor first; for one non-Hermitian A at degree 2,
\* Dagger(A)*A comes before A*Dagger(A).
C19_GeneratorMajorOrder ==
    Returned =>
        /\ \A i, j \in DOMAIN result :
              (i < j /\ Len(result[i]) = Len(result[j]) /\ Len(result[i]) >= 1)
                  => ProducedBefore(result[i], result[j])
        /\ (degree = 2 /\ variables = << Gen("A") >>)
              => Pos(<< Conj(Gen("A")), Gen("A") >>) < Pos(<< Gen("A"), Conj(Gen("A")) >>)

\* C19 witness: a degree-2 call on a Hermitian and a non-Hermitian generator
\* has returned, Dagger(g)*h before h*Dagger(g) for two of its generators.
C19_Witness ==
    /\ Returned /\ degree = 2 /\ Len(variables) = 2
    /\ \E g, h \in Range(variables) :
          /\ g.is_hermitian # "True" /\ h.is_hermitian = "True"
          /\ << Conj(g), h >> \in Range(result) /\ << h, Conj(g) >> \in Range(result)

\* b to the power e.
RECURSIVE Power(_, _)
Power(b, e) == IF e <= 0 THEN 1 ELSE b * Power(b, e - 1)

\* 1 + b + b^2 + ... + b^d.
RECURSIVE PowerSum(_, _)
PowerSum(b, d) == IF d < 0 THEN 0 ELSE Power(b, d) + PowerSum(b, d - 1)

\* The number of Hermitian generators of a list, and of the others.
NumHermitian(list) == Cardinality({ i \in DOMAIN list : list[i].is_hermitian = "True" })

NumNonHermitian(list) == Cardinality({ i \in DOMAIN list : list[i].is_hermitian # "True" })

\* C20: no simplification merges distinct words: for h distinct Hermitian
\* and k distinct non-Hermitian generators and d >= 0 the result has exactly
\* 1 + (h+2k) + ... + (h+2k)^d elements; a Hermitian X at degree 2 gives the
\* three elements 1, X, X^2.
C20_CountOfWords ==
    (Returned /\ degree >= 0 /\ NoRepetition(variables))
        => /\ Len(result) =
                 PowerSum(NumHermitian(variables) + 2 * NumNonHermitian(variables),
                          degree)
           /\ (degree = 2 /\ Len(variables) = 1 /\ AllHermitian(variables))
                 => result = << One, << variables[1] >>,
                                << variables[1], variables[1] >> >>

\* C20 witness: a degree-2 call on one Hermitian generator has returned
\* three elements, its square among them.
C20_Witness ==
    /\ Returned /\ degree = 2 /\ Len(variables) = 1 /\ AllHermitian(variables)
    /\ Len(result) = 3
    /\ << variables[1], variables[1] >> \in Range(result)

\* The position of a factor among the generators, in their input order.
Rank(f) == FirstIndex(variables, f)

\* v comes before w in the graded lexicographic order of the words over the
\* generators: shorter first, equal lengths by the first differing factor.
GradedLexLess(v, w) ==
    \/ Len(v) < Len(w)
    \/ /\ Len(v) = Len(w)
       /\ \E k \in DOMAIN v :
             /\ \A l \in 1..(k - 1) : v[l] = w[l]
             /\ Rank(v[k]) < Rank(w[k])

\* C21: for pairwise distinct Hermitian generators and d >= 0 the result is
\* in graded lexicographic order with respect to the input order of the
\* generators; for two generators g1, g2 at degree 2 it is exactly
\* 1, g1, g2, g1^2, g1*g2, g2*g1, g2^2.
C21_GradedLexOrder ==
    (Returned /\ degree >= 0 /\ AllHermitian(variables) /\ NoRepetition(variables))
        => /\ \A i \in 1..(Len(result) - 1) :
                 GradedLexLess(result[i], result[i + 1])
           /\ (degree = 2 /\ Len(variables) = 2)
                 => LET g1 == variables[1]
                        g2 == variables[2]
                    IN  result = << One, << g1 >>, << g2 >>, << g1, g1 >>,
                                    << g1, g2 >>, << g2, g1 >>, << g2, g2 >> >>

\* C21 witness: a call of the largest degree on X1, X0 (the input order is
\* not the order of the names) has returned X1*X0 before X0*X1.
C21_Witness ==
    /\ Returned /\ degree = MaxDegree
    /\ variables = << Gen("X1"), Gen("X0") >>
    /\ Pos(<< Gen("X1"), Gen("X0") >>) < Pos(<< Gen("X0"), Gen("X1") >>)

\* s is an initial segment of t.
IsPrefix(s, t) == Len(s) <= Len(t) /\ SubSeq(t, 1, Len(s)) = s

\* C22: for a non-empty list and d >= 1 the result for degree d - 1 is a
\* prefix of the result for degree d; after round k the working sequence is
\* the result for degree k, and a round only appends to it.
C22_PrefixStable ==
    /\ [](variables # << >> =>
            \A g, h \in history :
                (g.degree >= 0 /\ h.degree = g.degree + 1)
                    => IsPrefix(g.result, h.result))
    /\ []((pc = "loop" /\ variables # << >>) =>
            \A h \in history : h.degree = done => h.result = ncmonomials)
    /\ [][(pc = "loop" /\ pc' = "loop")
            => IsPrefix(ncmonomials, ncmonomials')]_vars

\* C22 witness: the session has the results for the degrees MaxDegree - 1
\* and MaxDegree of a longest list, and a later call is in its last round.
C22_Witness ==
    /\ Len(variables) = MaxVars
    /\ \E g, h \in history :
          /\ g.degree = MaxDegree - 1 /\ h.degree = MaxDegree
          /\ Len(g.result) < Len(h.result)
    /\ pc = "loop" /\ done = MaxDegree /\ done >= 1

\* The words of length exactly k over the generators of list.
WordsOfLength(list, k) == [1..k -> Alphabet(list)]

\* C23: for every list and d >= 0 the result is sorted by non-decreasing
\* word length; what round k appends is exactly the words of length k.
C23_SortedByLength ==
    /\ []((Returned /\ degree >= 0) =>
            \A i \in 1..(Len(result) - 1) : Len(result[i]) <= Len(result[i + 1]))
    /\ [][(pc = "loop" /\ pc' = "loop")
            => { ncmonomials'[i] : i \in (Len(ncmonomials) + 1)..Len(ncmonomials') }
                  = WordsOfLength(variables, done')]_vars

\* C23 witness: a call of the largest degree on a Hermitian and a
\* non-Hermitian generator has returned words of every length up to it.
C23_Witness ==
    /\ Returned /\ degree = MaxDegree /\ Len(variables) = MaxVars
    /\ ~AllHermitian(variables) /\ ~NoneHermitian(variables)
    /\ Len(result[Len(result)]) = MaxDegree
    /\ Len(result[2]) = 1

\* C24: for pairwise distinct non-Hermitian generators g1..gn and degree 1
\* the result is exactly 1, g1, conj(g1), ..., gn, conj(gn): the generators
\* in input order, each followed at once by its conjugate.
C24_NonHermitianDegreeOneOrder ==
    (Returned /\ degree = 1 /\ NoRepetition(variables) /\ NoneHermitian(variables))
        => /\ Len(result) = 2 * Len(variables) + 1
           /\ result[1] = One
           /\ \A i \in DOMAIN variables :
                 /\ result[2 * i] = << variables[i] >>
                 /\ result[2 * i + 1] = << Conj(variables[i]) >>

\* C24 witness: a degree-1 call on two different non-Hermitian generators
\* has returned, the conjugate of the first before the second generator.
C24_Witness ==
    /\ Returned /\ degree = 1 /\ Len(variables) = 2
    /\ NoRepetition(variables) /\ NoneHermitian(variables)
    /\ result[3] = << Conj(variables[1]) >> /\ result[4] = << variables[2] >>

\* list without the later occurrences of its elements, from position i on.
RECURSIVE FirstOccurrencesFrom(_, _)
FirstOccurrencesFrom(list, i) ==
    IF i > Len(list) THEN << >>
    ELSE IF \E j \in 1..(i - 1) : list[j] = list[i]
         THEN FirstOccurrencesFrom(list, i + 1)
         ELSE << list[i] >> \o FirstOccurrencesFrom(list, i + 1)

FirstOccurrences(list) == FirstOccurrencesFrom(list, 1)

\* C25: a list that repeats a generator gives, for every d >= 0, the same
\* sequence as the list with the later repetitions removed.
C25_RepetitionAddsNothing ==
    (Returned /\ degree >= 0)
        => result = Alone(FirstOccurrences(variables), degree)

\* C25 witness: a call of the largest degree on a list that repeats a
\* non-Hermitian generator has returned more than the identity.
C25_Witness ==
    /\ Returned /\ degree = MaxDegree /\ Len(variables) = MaxVars
    /\ ~NoRepetition(variables) /\ NoneHermitian(variables)
    /\ Len(FirstOccurrences(variables)) < Len(variables)
    /\ Len(result) > 3

\* C26: a generator contributes its conjugate exactly when its is_hermitian
\* is not true (false or None); the 1 at the front of the copy is never
\* conjugated: a round appends to temp one product per working monomial for
\* the 1 and for every Hermitian list entry, two for every other entry.
C26_ConjugateUnlessHermitian ==
    /\ []((Returned /\ degree >= 1) =>
            \A i \in DOMAIN variables :
                (<< Conj(variables[i]) >> \in Range(result))
                    <=> variables[i].is_hermitian \in { "False", "None" })
    /\ [][(pc = "loop" /\ pc' = "loop") =>
            /\ Len(temp') = Len(ncmonomials)
                   * (1 + NumHermitian(variables) + 2 * NumNonHermitian(variables))
            /\ \A f \in UNION { Range(temp'[i]) : i \in DOMAIN temp' } :
                  /\ f.name # IntOne.name
                  /\ f.dag => f.is_hermitian \in { "False", "None" }]_vars

\* C26 witness: a call on a Hermitian generator and one whose is_hermitian
\* is false has returned the conjugate of the second only.
C26_Witness ==
    /\ Returned /\ degree >= 1 /\ Len(variables) = 2
    /\ variables[1].is_hermitian = "True" /\ variables[2].is_hermitian = "False"
    /\ << Conj(variables[2]) >> \in Range(result)
    /\ << Conj(variables[1]) >> \notin Range(result)

\* C27: unique(unique(s)) = unique(s), unique(s) = s when s repeats nothing,
\* and unique leaves the sequence it is given as it was.
C27_UniqueIdempotent ==
    /\ []((pc = "unique-returned" \/ (pc = "loop" /\ done >= 1)) =>
            /\ unique(ncmonomials, seen).result = ncmonomials
            /\ NoRepetition(temp) => ncmonomials = temp)
    /\ [][(pc = "unique" /\ pc' = "unique-returned") => temp' = temp]_vars

\* C27 witness: unique has returned fewer items than a longest sequence
\* holds, and for that sequence as its own dict left it.
C27_Witness ==
    /\ pc = "unique-returned" /\ Len(temp) = MaxSeqLen
    /\ Len(ncmonomials) = 2 /\ seen = Range(ncmonomials)

\* The conjugate of the k-th fermionic operator.
CDag(k) == [C(k) EXCEPT !.dag = TRUE]

\* The anticommutator {a, b} of two different operators, and an expression
\* less the number 1.
Anti(a, b) == { [coef |-> 1, word |-> << a, b >>], [coef |-> 1, word |-> << b, a >>] }

LessOne(expr) == expr \cup { [coef |-> -1, word |-> << >>] }

\* How many entries of seq are e.
Occurs(seq, e) == Cardinality({ k \in DOMAIN seq : seq[k] = e })

\* C28: when cell 3 has run, the equalities hold, once each, the four
\* anticommutators {C_j^+, C_i}, {C_j, C_i^+}, {C_j, C_i}, {C_j^+, C_i^+} of
\* every pair i < j and C_r^2, (C_r^+)^2, {C_r, C_r^+} - 1 of every r, and
\* nothing else: 4 * n_vars * (n_vars - 1) / 2 + 3 * n_vars entries; the
\* inequalities hold two entries for every r, 2 * n_vars in all.
C28_EveryRelationOnce ==
    nb.pc = "end" =>
        LET n == nb.n_vars
            sites == 0..(n - 1)
        IN  /\ Len(nb.equalities) = 4 * ((n * (n - 1)) \div 2) + 3 * n
            /\ Len(nb.inequalities) = 2 * n
            /\ \A i, j \in sites :
                  i < j =>
                    /\ Occurs(nb.equalities, Anti(CDag(j), C(i))) = 1
                    /\ Occurs(nb.equalities, Anti(C(j), CDag(i))) = 1
                    /\ Occurs(nb.equalities, Anti(C(j), C(i))) = 1
                    /\ Occurs(nb.equalities, Anti(CDag(j), CDag(i))) = 1
            /\ \A k \in sites :
                  /\ Occurs(nb.equalities, { [coef |-> 1, word |-> << C(k), C(k) >>] }) = 1
                  /\ Occurs(nb.equalities,
                            { [coef |-> 1, word |-> << CDag(k), CDag(k) >>] }) = 1
                  /\ Occurs(nb.equalities, LessOne(Anti(C(k), CDag(k)))) = 1
                  /\ Cardinality({ m \in DOMAIN nb.inequalities :
                        \E t \in nb.inequalities[m] :
                            t.word = << CDag(k), C(k) >> }) = 2

\* C28 witness: cell 3 has run to its end on the largest lattice, more than
\* one pair among its operators.
C28_Witness ==
    /\ nb.pc = "end"
    /\ nb.n_vars = MaxLattice * MaxLattice /\ nb.n_vars > 2
    /\ Len(nb.equalities) > 3 * nb.n_vars

\* C29: the Hamiltonian loop runs with gam = 1 and lam = 2, and the pairing
\* term of every neighbour pair is in the objective it builds.
C29_DocumentedParameters ==
    /\ nb.pc \in { "for_r", "for_s" } => (nb.gam = 1 /\ nb.lam = 2)
    /\ (nb.pc = "cell3" /\ nb.n_vars > 1)
          => \E t \in nb.hamiltonian :
                \E rr, ss \in 0..(nb.n_vars - 1) :
                    t.word = << CDag(rr), CDag(ss) >>

====
